---- MODULE Spec2Model ----
(***************************************************************************)
(* Model of the forecasting path of the stock tracker:                     *)
(*   src/utils/prediction.ts   indicator calculator and forecast projector *)
(*                                                                         *)
(* JavaScript numbers are IEEE-754 binary64 values.  They are modelled as  *)
(* binary floating-point values of reduced precision (Precision bits of    *)
(* mantissa instead of 53), with round-to-nearest-even, NaN and the two    *)
(* infinities.  The exponent is unbounded (no overflow or underflow) and   *)
(* the sign of zero is not kept.                                           *)
(***************************************************************************)
EXTENDS Integers, Sequences, FiniteSets, TLC

(***************************************************************************)
(* Bounds of the model                                                     *)
(***************************************************************************)
Precision == 11

(***************************************************************************)
(* Numbers                                                                 *)
(***************************************************************************)
NaN == [c |-> "nan", s |-> 1, m |-> 0, e |-> 0]

Inf(sg) == [c |-> "inf", s |-> sg, m |-> 0, e |-> 0]

Zero == [c |-> "fin", s |-> 1, m |-> 0, e |-> 0]

IsNaN(a) == a.c = "nan"

IsZero(a) == a.c = "fin" /\ a.m = 0

\* number of binary digits of M, 0 <= M < 2^30
BitLen4(M) == IF M < 4 THEN (IF M < 2 THEN M ELSE 2) ELSE (IF M < 8 THEN 3 ELSE 4)

BitLen8(M) == IF M < 16 THEN BitLen4(M) ELSE 4 + BitLen4(M \div 16)

BitLen16(M) == IF M < 256 THEN BitLen8(M) ELSE 8 + BitLen8(M \div 256)

BitLen(M) == IF M < 65536 THEN BitLen16(M) ELSE 16 + BitLen16(M \div 65536)

\* the number nearest to sg * M * 2^E, ties to even
RoundNearestEven(sg, M, E) ==
  LET Rounded(b) ==
        IF b <= Precision
        THEN [c |-> "fin", s |-> sg, m |-> M * 2^(Precision - b), e |-> E - (Precision - b)]
        ELSE LET k    == b - Precision
                 q    == M \div 2^k
                 r    == M % 2^k
                 half == 2^(k-1)
                 q2   == IF r > half \/ (r = half /\ q % 2 = 1) THEN q + 1 ELSE q
             IN IF q2 = 2^Precision
                THEN [c |-> "fin", s |-> sg, m |-> 2^(Precision-1), e |-> E + k + 1]
                ELSE [c |-> "fin", s |-> sg, m |-> q2, e |-> E + k]
  IN IF M = 0 THEN Zero ELSE Rounded(BitLen(M))

\* the number nearest to n / d, for integers n and d > 0
FromRatio(n, d) ==
  LET an == IF n < 0 THEN -n ELSE n
      sg == IF n < 0 THEN -1 ELSE 1
      Scaled(k) ==
        LET N  == IF k >= 0 THEN an * 2^k ELSE an
            D  == IF k >= 0 THEN d ELSE d * 2^(-k)
            Q  == N \div D
            st == IF N % D = 0 THEN 0 ELSE 1
        IN RoundNearestEven(sg, 2 * Q + st, -k - 1)
  IN IF n = 0 THEN Zero ELSE Scaled(Precision + 2 + BitLen(d) - BitLen(an))

FromInt(n) == FromRatio(n, 1)

One == FromInt(1)

FNeg(a) == IF a.c = "nan" \/ IsZero(a) THEN a ELSE [a EXCEPT !.s = -a.s]

FAbs(a) == IF a.c = "nan" THEN a ELSE [a EXCEPT !.s = 1]

\* a * b
FMul(a, b) ==
  IF a.c = "nan" \/ b.c = "nan" THEN NaN
  ELSE IF a.c = "inf" \/ b.c = "inf"
       THEN IF IsZero(a) \/ IsZero(b) THEN NaN ELSE Inf(a.s * b.s)
       ELSE RoundNearestEven(a.s * b.s, a.m * b.m, a.e + b.e)

\* a + b
FAdd(a, b) ==
  IF a.c = "nan" \/ b.c = "nan" THEN NaN
  ELSE IF a.c = "inf"
       THEN IF b.c = "inf" /\ b.s # a.s THEN NaN ELSE a
  ELSE IF b.c = "inf" THEN b
  ELSE IF IsZero(a) THEN b
  ELSE IF IsZero(b) THEN a
  ELSE LET hi == IF a.e >= b.e THEN a ELSE b
           lo == IF a.e >= b.e THEN b ELSE a
           d  == hi.e - lo.e
       IN IF d > Precision + 1 THEN hi
          ELSE LET S == hi.s * hi.m * 2^d + lo.s * lo.m
               IN RoundNearestEven(IF S < 0 THEN -1 ELSE 1,
                                   IF S < 0 THEN -S ELSE S, lo.e)

\* a - b
FSub(a, b) == FAdd(a, FNeg(b))

\* a / b
FDiv(a, b) ==
  IF a.c = "nan" \/ b.c = "nan" THEN NaN
  ELSE IF a.c = "inf" THEN (IF b.c = "inf" THEN NaN ELSE Inf(a.s * b.s))
  ELSE IF b.c = "inf" THEN Zero
  ELSE IF IsZero(b) THEN (IF IsZero(a) THEN NaN ELSE Inf(a.s))
  ELSE IF IsZero(a) THEN Zero
  ELSE LET N  == a.m * 2^(Precision + 2)
           Q  == N \div b.m
           st == IF N % b.m = 0 THEN 0 ELSE 1
       IN RoundNearestEven(a.s * b.s, 2 * Q + st, a.e - b.e - Precision - 3)

\* a < b, a > b, a <= b  (false when either is NaN)
FLt(a, b) ==
  LET Negative(d) == d.c # "nan" /\ d.s = -1 /\ ~IsZero(d) IN Negative(FSub(a, b))

FGt(a, b) == FLt(b, a)

FLe(a, b) == a.c # "nan" /\ b.c # "nan" /\ ~FLt(b, a)

\* Math.min, Math.max: NaN when either argument is NaN
FMin(a, b) == IF a.c = "nan" \/ b.c = "nan" THEN NaN ELSE IF FLt(b, a) THEN b ELSE a

FMax(a, b) == IF a.c = "nan" \/ b.c = "nan" THEN NaN ELSE IF FLt(a, b) THEN b ELSE a

\* floor of the square root of M, by bisection on lo..hi
RECURSIVE ISqrtBetween(_, _, _)
ISqrtBetween(M, lo, hi) ==
  IF hi - lo <= 1 THEN lo
  ELSE LET mid == (lo + hi) \div 2
       IN IF mid * mid <= M THEN ISqrtBetween(M, mid, hi) ELSE ISqrtBetween(M, lo, mid)

ISqrt(M) == ISqrtBetween(M, 0, 2^15)

\* Math.sqrt
FSqrt(a) ==
  IF a.c = "nan" THEN NaN
  ELSE IF IsZero(a) THEN Zero
  ELSE IF a.s = -1 THEN NaN
  ELSE IF a.c = "inf" THEN a
  ELSE LET k  == IF (a.e - (Precision + 1)) % 2 = 0 THEN Precision + 1 ELSE Precision + 2
           M  == a.m * 2^k
           R  == ISqrt(M)
           st == IF R * R = M THEN 0 ELSE 1
       IN RoundNearestEven(1, 2 * R + st, ((a.e - k) \div 2) - 1)

\* sum of the series y^k / k!, k = from .. ExpTerms, given the term of index from - 1
ExpTerms == 16

RECURSIVE ExpSeries(_, _, _, _)
ExpSeries(y, k, term, acc) ==
  IF k > ExpTerms THEN acc
  ELSE LET Rest(t) == ExpSeries(y, k + 1, t, FAdd(acc, t))
       IN Rest(FDiv(FMul(term, y), FromInt(k)))

\* Math.exp, as 1 / (series of |a|) for negative a
FExp(a) ==
  IF a.c = "nan" THEN NaN
  ELSE IF a.c = "inf" THEN (IF a.s = 1 THEN a ELSE Zero)
  ELSE IF IsZero(a) THEN One
  ELSE LET Signed(E) == IF a.s = 1 THEN E ELSE FDiv(One, E)
       IN Signed(ExpSeries(FAbs(a), 1, One, One))

\* Number(a.toFixed(2)): a rounded to two decimals, halves away from zero
ToFixed2(a) ==
  IF a.c # "fin" \/ IsZero(a) THEN a
  ELSE LET n == IF a.e >= 0 THEN a.m * 2^a.e * 100
                ELSE IF a.e < -29 THEN 0
                ELSE (2 * a.m * 100 + 2^(-a.e)) \div (2 * 2^(-a.e))
       IN FromRatio(a.s * n, 100)

(***************************************************************************)
(* Arrays: a JavaScript array is a sequence; indices below are 1-based     *)
(***************************************************************************)
Min(a, b) == IF a < b THEN a ELSE b

\* arr[k] for a 0-based index k; out of range yields undefined, NaN in arithmetic
At(arr, k) == IF 0 <= k /\ k < Len(arr) THEN arr[k + 1] ELSE NaN

\* arr.slice(-w), w > 0
SliceLast(arr, w) ==
  IF Len(arr) <= w THEN arr ELSE SubSeq(arr, Len(arr) - w + 1, Len(arr))

\* arr.reduce((a, b) => a + b, acc) over the elements lo..hi, added from left to
\* right; the range is halved to keep the evaluation shallow, and a partial sum
\* that is NaN stays NaN
RECURSIVE SumRange(_, _, _, _)
SumRange(arr, lo, hi, acc) ==
  IF lo > hi THEN acc
  ELSE IF lo = hi THEN FAdd(acc, arr[lo])
  ELSE LET mid == (lo + hi) \div 2
           Right(left) == IF IsNaN(left) THEN NaN ELSE SumRange(arr, mid + 1, hi, left)
       IN Right(SumRange(arr, lo, mid, acc))

\* arr.reduce((a, b) => a + b, 0)
Sum(arr) == SumRange(arr, 1, Len(arr), Zero)

(***************************************************************************)
(* Indicator calculator                                                    *)
(***************************************************************************)
\* mutant: the denominator is the product of the variance sums, not its root
calculateCorrelationNoRoot(x, y) ==
  LET n == Min(Len(x), Len(y))
      Loop(xDiff, yDiff) ==
        LET numerator == Sum([i \in 1..n |-> FMul(xDiff[i], yDiff[i])])
            xVariance == Sum([i \in 1..n |-> FMul(xDiff[i], xDiff[i])])
            yVariance == Sum([i \in 1..n |-> FMul(yDiff[i], yDiff[i])])
        IN FDiv(numerator, FMul(xVariance, yVariance))
      Means(xMean, yMean) ==
        Loop([i \in 1..n |-> FSub(x[i], xMean)], [i \in 1..n |-> FSub(y[i], yMean)])
  IN IF n < 2 THEN Zero
     ELSE Means(FDiv(Sum(x), FromInt(n)), FDiv(Sum(y), FromInt(n)))

calculateCorrelation(x, y) ==
  LET n == Min(Len(x), Len(y))
      Loop(xDiff, yDiff) ==
        LET numerator == Sum([i \in 1..n |-> FMul(xDiff[i], yDiff[i])])
            xVariance == Sum([i \in 1..n |-> FMul(xDiff[i], xDiff[i])])
            yVariance == Sum([i \in 1..n |-> FMul(yDiff[i], yDiff[i])])
        IN FDiv(numerator, FSqrt(FMul(xVariance, yVariance)))
      Means(xMean, yMean) ==
        Loop([i \in 1..n |-> FSub(x[i], xMean)], [i \in 1..n |-> FSub(y[i], yMean)])
  IN IF n < 2 THEN Zero
     ELSE Means(FDiv(Sum(x), FromInt(n)), FDiv(Sum(y), FromInt(n)))

calculateReturns(prices) ==
  IF Len(prices) < 2 THEN << >>
  ELSE [i \in 1..(Len(prices) - 1) |->
          FDiv(FSub(prices[i + 1], prices[i]), prices[i])]

calculateVolatility(prices, window) ==
  LET Square(d) == FMul(d, d)
      Variance(returns, mean) ==
        FDiv(Sum([i \in 1..Len(returns) |-> Square(FSub(returns[i], mean))]),
             FromInt(Len(returns)))
      Mean(returns) ==
        Variance(returns, FDiv(Sum(returns), FromInt(Len(returns))))
  IN FSqrt(Mean(calculateReturns(SliceLast(prices, window))))

\* mutant: the textbook ceiling is returned when there is no loss
calculateRSISaturating(prices, period) ==
  LET arr == SliceLast(prices, period + 1)
      Index(avgGain, avgLoss) ==
        IF IsZero(avgLoss) THEN FromInt(100)
        ELSE LET rs == FDiv(avgGain, avgLoss)
             IN FSub(FromInt(100), FDiv(FromInt(100), FAdd(One, rs)))
      Averages(changes) ==
        LET gains  == [i \in 1..Len(changes) |->
                         IF FGt(changes[i], Zero) THEN changes[i] ELSE Zero]
            losses == [i \in 1..Len(changes) |->
                         IF FLt(changes[i], Zero) THEN FNeg(changes[i]) ELSE Zero]
        IN Index(FDiv(Sum(gains), FromInt(period)), FDiv(Sum(losses), FromInt(period)))
  IN Averages(IF Len(arr) < 2 THEN << >>
              ELSE [i \in 1..(Len(arr) - 1) |-> FSub(arr[i + 1], arr[i])])

\* period >= 1
calculateRSI(prices, period) ==
  LET arr == SliceLast(prices, period + 1)
      Index(avgGain, avgLoss) ==
        IF IsZero(avgLoss) THEN FromInt(70)
        ELSE LET rs == FDiv(avgGain, avgLoss)
             IN FSub(FromInt(100), FDiv(FromInt(100), FAdd(One, rs)))
      Averages(changes) ==
        LET gains  == [i \in 1..Len(changes) |->
                         IF FGt(changes[i], Zero) THEN changes[i] ELSE Zero]
            losses == [i \in 1..Len(changes) |->
                         IF FLt(changes[i], Zero) THEN FNeg(changes[i]) ELSE Zero]
        IN Index(FDiv(Sum(gains), FromInt(period)), FDiv(Sum(losses), FromInt(period)))
  IN Averages(IF Len(arr) < 2 THEN << >>
              ELSE [i \in 1..(Len(arr) - 1) |-> FSub(arr[i + 1], arr[i])])

\* mutant: the first average is produced one index late
calculateMALateStart(prices, period) ==
  [i \in 1..Len(prices) |->
     IF i - 1 < period THEN NaN
     ELSE FDiv(Sum(SubSeq(prices, i - period + 1, i)), FromInt(period))]

\* period >= 1
calculateMA(prices, period) ==
  [i \in 1..Len(prices) |->
     IF i - 1 < period - 1 THEN NaN
     ELSE FDiv(Sum(SubSeq(prices, i - period + 1, i)), FromInt(period))]

calculateMomentum(prices, period) ==
  IF Len(prices) < period THEN Zero
  ELSE LET Mean(returns) == FDiv(Sum(returns), FromInt(Len(returns)))
       IN Mean(calculateReturns(SliceLast(prices, period)))

calculateMeanReversionSignal(price, ma20, ma50) ==
  LET shortTermDev == FDiv(FSub(price, ma20), ma20)
      longTermDev  == FDiv(FSub(price, ma50), ma50)
  IN FDiv(FNeg(FAdd(shortTermDev, longTermDev)), FromInt(2))

(***************************************************************************)
(* Forecast projector: predictFuturePrices(targetPrices, spyPrices,        *)
(* correlatedStocksPrices, daysToPredict).  correlatedStocksPrices is never*)
(* read by the function and is not modelled.                               *)
(***************************************************************************)
\* mutant: the threshold is off by one
InsufficientHistoryOffByOne(targetPrices) == Len(targetPrices) < 49

\* line 95: the early return
InsufficientHistory(targetPrices) == Len(targetPrices) < 50

\* mutant: the window is the oldest 50 entries
RecentPricesOldest(targetPrices) ==
  IF Len(targetPrices) <= 50 THEN targetPrices ELSE SubSeq(targetPrices, 1, 50)

\* line 97
RecentPrices(targetPrices) == SliceLast(targetPrices, 50)

\* lines 97-116: the locals of an invocation on entry to the loop; the locals
\* assigned inside the loop are undefined until the first iteration
EnterLoop(targetPrices, spyPrices) ==
  LET recentPrices == RecentPrices(targetPrices)
      lastPrice    == At(recentPrices, Len(recentPrices) - 1)
      spyReturns   == calculateReturns(SliceLast(spyPrices, 20))
      stockReturns == calculateReturns(SliceLast(recentPrices, 20))
      spyLast      == At(spyPrices, Len(spyPrices) - 1)
      spyPrev      == At(spyPrices, Len(spyPrices) - 2)
  IN [ volatility      |-> calculateVolatility(recentPrices, 20),
       rsi             |-> calculateRSI(recentPrices, 14),
       momentum        |-> calculateMomentum(recentPrices, 10),
       ma20            |-> calculateMA(recentPrices, 20),
       ma50            |-> calculateMA(recentPrices, 50),
       correlation     |-> calculateCorrelation(spyReturns, stockReturns),
       recentSpyReturn |-> FDiv(FSub(spyLast, spyPrev), spyPrev),
       predictions     |-> << >>,
       currentPrice    |-> lastPrice,
       i               |-> 1,
       expectedReturn  |-> NaN,
       randomComponent |-> NaN,
       totalReturn     |-> NaN,
       dampening       |-> NaN,
       change          |-> NaN,
       maxChange       |-> NaN,
       boundedChange   |-> NaN ]

\* mutant: the loop stops one iteration early
LoopConditionStrict(f, daysToPredict) == f.i < daysToPredict

\* line 118: the loop condition
LoopCondition(f, daysToPredict) == f.i <= daysToPredict

(***************************************************************************)
(* Inputs explored                                                         *)
(***************************************************************************)
MaxDays   == 3
MaxLead   == 1
Shortfall == 2
MaxCalls  == 2
MaxLen    == 3

\* line 95, line 97: the length of the working window
HistoryWindow == 50

\* a price given in hundredths
Price(cents) == FromRatio(cents, 100)

\* the price j days before the last one of a target series
TargetPrice(kind, j) ==
  CASE kind = "volatile" -> Price(IF j % 2 = 0 THEN 400 ELSE 100)
    [] kind = "quiet"    -> FromRatio(IF j % 7 = 3 THEN 1284 ELSE 1285, 1024)
    [] kind = "flat"     -> Price(200)
    [] kind = "trend"    -> Price(300 - 2 * j + 5 * (j % 3))

TargetKinds == {"volatile", "quiet", "flat", "trend"}

\* n prices of a kind, preceded by lead older prices of another magnitude
Target(kind, n, lead) ==
  [i \in 1..lead |-> Price(IF i % 2 = 1 THEN 900 ELSE 50)]
    \o [i \in 1..n |-> TargetPrice(kind, n - i)]

TargetInputs ==
  {Target(k, HistoryWindow - d, 0) : k \in TargetKinds, d \in 1..Shortfall}
    \cup {Target(k, HistoryWindow, l) : k \in TargetKinds, l \in 0..MaxLead}

SpyPrice(kind, j) ==
  CASE kind = "rise" -> Price(400 + 7 * (j % 4) - j)
    [] kind = "flat" -> Price(400)

Reference(kind, n) == [i \in 1..n |-> SpyPrice(kind, n - i)]

SpyInputs ==
  {Reference("rise", n) : n \in {0, 1, 2, 3, 21}} \cup {Reference("flat", 21)}

\* values of Math.random(), in [0, 1)
RandomDraws == {FromRatio(0, 1), FromRatio(15, 16)}

\* constants a stubbed random source returns
StubValues == {FromRatio(1, 2)}

\* mutant: a second random source that the stub does not replace
MathRandomIgnoringStub(random) == RandomDraws

\* line 144: the values Math.random() can return; a stubbed source returns
\* its constant
MathRandom(random) == IF random.fixed THEN {random.value} ELSE RandomDraws

\* lines 136-141: the weighted blend
ExpectedReturn(meanReversionSignal, rsiSignal, marketInfluence, momentumEffect) ==
  FAdd(FAdd(FAdd(FMul(meanReversionSignal, FromRatio(3, 10)),
                 FMul(rsiSignal, FromRatio(2, 10))),
            FMul(marketInfluence, FromRatio(3, 10))),
       FMul(momentumEffect, FromRatio(2, 10)))

\* line 144: the stochastic term
RandomComponent(volatility, random, i) ==
  FMul(FMul(volatility, FSub(random, FromRatio(1, 2))), FSqrt(FromInt(i)))

\* line 148
Dampening(i) == FExp(FMul(FromRatio(-1, 10), FromInt(i)))

\* mutant: the return is only dampened, not scaled by the volatility
ChangeWithoutVolatility(totalReturn, volatility, dampening) ==
  FMul(totalReturn, dampening)

\* line 149
Change(totalReturn, volatility, dampening) ==
  FMul(FMul(totalReturn, volatility), dampening)

\* line 152
MaxChange(volatility) == FMin(FromRatio(1, 10), FMul(volatility, FromInt(2)))

\* mutant: the change is only clamped from above
BoundedChangeUpperOnly(maxChange, change) == FMin(maxChange, change)

\* line 153
BoundedChange(maxChange, change) == FMax(FNeg(maxChange), FMin(maxChange, change))

\* lines 119-153: the values an iteration computes from the locals f,
\* random being the value of Math.random()
IterationLocals(f, random) ==
  LET meanReversionSignal == calculateMeanReversionSignal(
                               f.currentPrice,
                               At(f.ma20, Len(f.ma20) - 1),
                               At(f.ma50, Len(f.ma50) - 1))
      rsiSignal           == FDiv(FSub(FromInt(50), f.rsi), FromInt(50))
      marketInfluence     == FMul(f.recentSpyReturn, f.correlation)
      momentumEffect      == FMul(f.momentum,
                                  FExp(FMul(FromRatio(-1, 2), FromInt(f.i))))
      \* lines 152-153
      Bound(expectedReturn, randomComponent, totalReturn, dampening, change,
            maxChange) ==
        [ expectedReturn  |-> expectedReturn,
          randomComponent |-> randomComponent,
          totalReturn     |-> totalReturn,
          dampening       |-> dampening,
          change          |-> change,
          maxChange       |-> maxChange,
          boundedChange   |-> BoundedChange(maxChange, change) ]
      \* line 149
      Scale(expectedReturn, randomComponent, totalReturn, dampening) ==
        Bound(expectedReturn, randomComponent, totalReturn, dampening,
              Change(totalReturn, f.volatility, dampening),
              MaxChange(f.volatility))
      \* lines 145-148
      Total(expectedReturn, randomComponent) ==
        Scale(expectedReturn, randomComponent,
              FAdd(expectedReturn, randomComponent), Dampening(f.i))
  IN Total(ExpectedReturn(meanReversionSignal, rsiSignal, marketInfluence,
                          momentumEffect),
           RandomComponent(f.volatility, random, f.i))

\* mutant: the 20-day moving average follows the running price
LoopBodyRecomputingMA(f, random) ==
  LET Push(l, currentPrice) ==
        [f EXCEPT !.currentPrice    = currentPrice,
                  !.predictions     = Append(f.predictions, ToFixed2(currentPrice)),
                  !.i               = f.i + 1,
                  !.ma20            = Append(Tail(f.ma20),
                                        FAdd(At(f.ma20, Len(f.ma20) - 1),
                                             FDiv(FSub(currentPrice, f.currentPrice),
                                                  FromInt(20)))),
                  !.expectedReturn  = l.expectedReturn,
                  !.randomComponent = l.randomComponent,
                  !.totalReturn     = l.totalReturn,
                  !.dampening       = l.dampening,
                  !.change          = l.change,
                  !.maxChange       = l.maxChange,
                  !.boundedChange   = l.boundedChange]
      Update(l) == Push(l, FMul(f.currentPrice, FAdd(One, l.boundedChange)))
  IN Update(IterationLocals(f, random))

\* lines 118-158: one iteration of the loop
LoopBody(f, random) ==
  LET \* line 157
      Push(l, currentPrice) ==
        [f EXCEPT !.currentPrice    = currentPrice,
                  !.predictions     = Append(f.predictions, ToFixed2(currentPrice)),
                  !.i               = f.i + 1,
                  !.expectedReturn  = l.expectedReturn,
                  !.randomComponent = l.randomComponent,
                  !.totalReturn     = l.totalReturn,
                  !.dampening       = l.dampening,
                  !.change          = l.change,
                  !.maxChange       = l.maxChange,
                  !.boundedChange   = l.boundedChange]
      \* line 156
      Update(l) == Push(l, FMul(f.currentPrice, FAdd(One, l.boundedChange)))
  IN Update(IterationLocals(f, random))

\* lines 89-161 as a function of its arguments and of the values drawn from
\* Math.random(), draws[i] being the value drawn in iteration i
RECURSIVE RunLoop(_, _, _)
RunLoop(f, daysToPredict, draws) ==
  IF LoopCondition(f, daysToPredict)
  THEN RunLoop(LoopBody(f, draws[f.i]), daysToPredict, draws)
  ELSE f.predictions

predictFuturePrices(targetPrices, spyPrices, daysToPredict, draws) ==
  IF InsufficientHistory(targetPrices) THEN << >>
  ELSE RunLoop(EnterLoop(targetPrices, spyPrices), daysToPredict, draws)

(***************************************************************************)
(* The earlier copy of the projector (unnamed/part_000, lines 370-437): it *)
(* hands the whole target series to the indicators instead of slicing the  *)
(* last 50 entries first; its loop is the same.                            *)
(***************************************************************************)
EnterLoopUnsliced(targetPrices, spyPrices) ==
  LET spyReturns   == calculateReturns(SliceLast(spyPrices, 20))
      stockReturns == calculateReturns(SliceLast(targetPrices, 20))
      spyLast      == At(spyPrices, Len(spyPrices) - 1)
      spyPrev      == At(spyPrices, Len(spyPrices) - 2)
  IN [ volatility      |-> calculateVolatility(targetPrices, 20),
       rsi             |-> calculateRSI(targetPrices, 14),
       momentum        |-> calculateMomentum(targetPrices, 10),
       ma20            |-> calculateMA(targetPrices, 20),
       ma50            |-> calculateMA(targetPrices, 50),
       correlation     |-> calculateCorrelation(spyReturns, stockReturns),
       recentSpyReturn |-> FDiv(FSub(spyLast, spyPrev), spyPrev),
       predictions     |-> << >>,
       currentPrice    |-> At(targetPrices, Len(targetPrices) - 1),
       i               |-> 1,
       expectedReturn  |-> NaN,
       randomComponent |-> NaN,
       totalReturn     |-> NaN,
       dampening       |-> NaN,
       change          |-> NaN,
       maxChange       |-> NaN,
       boundedChange   |-> NaN ]

predictFuturePricesUnsliced(targetPrices, spyPrices, daysToPredict, draws) ==
  IF InsufficientHistory(targetPrices) THEN << >>
  ELSE RunLoop(EnterLoopUnsliced(targetPrices, spyPrices), daysToPredict, draws)

(***************************************************************************)
(* State                                                                   *)
(*   targetPrices, spyPrices, daysToPredict  arguments the caller passes   *)
(*   random    the source behind Math.random(): native, or a stub that     *)
(*             returns a constant                                          *)
(*   pc        "idle" between invocations, "loop" inside the for loop      *)
(*   frame     the locals of the running invocation                        *)
(*   calls     the number of invocations that have returned                *)
(*   results   the values returned by the last two invocations             *)
(*   fnArgs, fnResult  arguments and result of an indicator function       *)
(*             applied on its own                                          *)
(*   symbol, stocks, loading, error   the state of the App component       *)
(*   fetch     the getStockData calls that submissions are waiting for     *)
(*   removals  the number of chips removed                                 *)
(*   service   the locals and position of a getStockData call              *)
(***************************************************************************)
VARIABLES targetPrices, spyPrices, daysToPredict, random, pc, frame, calls,
          results, fnArgs, fnResult, symbol, stocks, loading, error, fetch,
          removals, service

vars == <<targetPrices, spyPrices, daysToPredict, random, pc, frame, calls,
          results, fnArgs, fnResult, symbol, stocks, loading, error, fetch,
          removals, service>>

appVars == <<symbol, stocks, loading, error, fetch, removals, service>>

\* no getStockData call has been made
NoCall == [pc |-> "idle"]

\* no submission is waiting
NoFetch == << >>

\* part_000 lines 17-20: the component as constructed, and no call made
ApplicationIdle ==
  /\ symbol = << >>
  /\ stocks = << >>
  /\ loading = FALSE
  /\ error = "none"
  /\ fetch = NoFetch
  /\ removals = 0
  /\ service = NoCall

\* no invocation is running
NoFrame ==
  [ volatility |-> NaN, rsi |-> NaN, momentum |-> NaN, ma20 |-> << >>,
    ma50 |-> << >>, correlation |-> NaN, recentSpyReturn |-> NaN,
    predictions |-> << >>, currentPrice |-> NaN, i |-> 0,
    expectedReturn |-> NaN, randomComponent |-> NaN, totalReturn |-> NaN,
    dampening |-> NaN, change |-> NaN, maxChange |-> NaN, boundedChange |-> NaN ]

None == [fn |-> "none"]

NativeRandom == [fixed |-> FALSE, value |-> Zero]

\* the last two return values
LastTwo(rs) == IF Len(rs) <= 2 THEN rs ELSE SubSeq(rs, Len(rs) - 1, Len(rs))

ProjectorIdle ==
  /\ pc = "idle"
  /\ frame = NoFrame
  /\ calls = 0
  /\ results = << >>

(***************************************************************************)
(* Spec: a caller invokes predictFuturePrices up to MaxCalls times with    *)
(* the same arguments; one action per loop iteration.                      *)
(***************************************************************************)
Init ==
  /\ targetPrices \in TargetInputs
  /\ spyPrices \in SpyInputs
  /\ daysToPredict \in 0..MaxDays
  /\ random \in {NativeRandom} \cup {[fixed |-> TRUE, value |-> v] : v \in StubValues}
  /\ ProjectorIdle
  /\ ApplicationIdle
  /\ fnArgs = None
  /\ fnResult = None

\* lines 89-116: entry; the early return on a short history
Call ==
  /\ pc = "idle"
  /\ calls < MaxCalls
  /\ IF InsufficientHistory(targetPrices)
     THEN /\ results' = LastTwo(Append(results, << >>))
          /\ calls' = calls + 1
          /\ UNCHANGED <<pc, frame>>
     ELSE /\ frame' = EnterLoop(targetPrices, spyPrices)
          /\ pc' = "loop"
          /\ UNCHANGED <<calls, results>>
  /\ UNCHANGED <<targetPrices, spyPrices, daysToPredict, random, fnArgs, fnResult>>
  /\ UNCHANGED appVars

\* lines 118-158: one iteration
Iterate ==
  /\ pc = "loop"
  /\ LoopCondition(frame, daysToPredict)
  /\ \E r \in MathRandom(random) : frame' = LoopBody(frame, r)
  /\ UNCHANGED <<targetPrices, spyPrices, daysToPredict, random, pc, calls,
                 results, fnArgs, fnResult>>
  /\ UNCHANGED appVars

\* line 160: return predictions
Return ==
  /\ pc = "loop"
  /\ ~LoopCondition(frame, daysToPredict)
  /\ results' = LastTwo(Append(results, frame.predictions))
  /\ calls' = calls + 1
  /\ pc' = "idle"
  /\ frame' = NoFrame
  /\ UNCHANGED <<targetPrices, spyPrices, daysToPredict, random, fnArgs, fnResult>>
  /\ UNCHANGED appVars

Next == Call \/ Iterate \/ Return

Spec == Init /\ [][Next]_vars

(***************************************************************************)
(* SpecWindow: predictFuturePrices applied once, as a function of its      *)
(* arguments and of the values drawn from Math.random()                    *)
(***************************************************************************)
DrawSequences == {[i \in 1..MaxDays |-> r] : r \in RandomDraws}

InitWindow ==
  /\ targetPrices \in TargetInputs
  /\ spyPrices \in SpyInputs
  /\ daysToPredict \in 0..MaxDays
  /\ random = NativeRandom
  /\ ProjectorIdle
  /\ ApplicationIdle
  /\ fnArgs \in {[fn |-> "predictFuturePrices", draws |-> d] : d \in DrawSequences}
  /\ fnResult = None

ApplyProjector ==
  /\ fnArgs.fn = "predictFuturePrices"
  /\ fnResult = None
  /\ fnResult' = [fn |-> "predictFuturePrices",
                  value |-> predictFuturePrices(targetPrices, spyPrices,
                                                daysToPredict, fnArgs.draws)]
  /\ UNCHANGED <<targetPrices, spyPrices, daysToPredict, random, pc, frame,
                 calls, results, fnArgs>>
  /\ UNCHANGED appVars

NextWindow == ApplyProjector

SpecWindow == InitWindow /\ [][NextWindow]_vars

(***************************************************************************)
(* SpecCorr: calculateCorrelation applied once to two short sequences      *)
(***************************************************************************)
CorrValues == {FromInt(1), FromInt(3), FromRatio(-1, 10)}

CorrInputs == UNION {[1..n -> CorrValues] : n \in 0..MaxLen}

InitCorr ==
  /\ targetPrices = << >>
  /\ spyPrices = << >>
  /\ daysToPredict = 0
  /\ random = NativeRandom
  /\ ProjectorIdle
  /\ ApplicationIdle
  /\ fnArgs \in {[fn |-> "calculateCorrelation", x |-> x, y |-> y] :
                   x \in CorrInputs, y \in CorrInputs}
  /\ fnResult = None

ApplyCorrelation ==
  /\ fnArgs.fn = "calculateCorrelation"
  /\ fnResult = None
  /\ fnResult' = [fn |-> "calculateCorrelation",
                  value |-> calculateCorrelation(fnArgs.x, fnArgs.y)]
  /\ UNCHANGED <<targetPrices, spyPrices, daysToPredict, random, pc, frame,
                 calls, results, fnArgs>>
  /\ UNCHANGED appVars

NextCorr == ApplyCorrelation

SpecCorr == InitCorr /\ [][NextCorr]_vars

(***************************************************************************)
(* SpecMA: calculateMA applied once to a short sequence of whole prices    *)
(***************************************************************************)
MAUnits == {1, 2, 5}

MAInputs == UNION {[1..n -> MAUnits] : n \in 0..MaxLen}

InitMA ==
  /\ targetPrices = << >>
  /\ spyPrices = << >>
  /\ daysToPredict = 0
  /\ random = NativeRandom
  /\ ProjectorIdle
  /\ ApplicationIdle
  /\ fnArgs \in {[fn |-> "calculateMA", units |-> u,
                  prices |-> [i \in 1..Len(u) |-> FromInt(u[i])],
                  period |-> p] : u \in MAInputs, p \in 1..(MaxLen + 1)}
  /\ fnResult = None

ApplyMA ==
  /\ fnArgs.fn = "calculateMA"
  /\ fnResult = None
  /\ fnResult' = [fn |-> "calculateMA",
                  value |-> calculateMA(fnArgs.prices, fnArgs.period)]
  /\ UNCHANGED <<targetPrices, spyPrices, daysToPredict, random, pc, frame,
                 calls, results, fnArgs>>
  /\ UNCHANGED appVars

NextMA == ApplyMA

SpecMA == InitMA /\ [][NextMA]_vars

(***************************************************************************)
(* SpecRSI: calculateRSI applied once to a short sequence of whole prices  *)
(***************************************************************************)
RSIUnits == {1, 2, 5}

RSIInputs == UNION {[1..n -> RSIUnits] : n \in 0..(MaxLen + 1)}

InitRSI ==
  /\ targetPrices = << >>
  /\ spyPrices = << >>
  /\ daysToPredict = 0
  /\ random = NativeRandom
  /\ ProjectorIdle
  /\ ApplicationIdle
  /\ fnArgs \in {[fn |-> "calculateRSI", units |-> u,
                  prices |-> [i \in 1..Len(u) |-> FromInt(u[i])],
                  period |-> p] : u \in RSIInputs, p \in 1..MaxLen}
  /\ fnResult = None

ApplyRSI ==
  /\ fnArgs.fn = "calculateRSI"
  /\ fnResult = None
  /\ fnResult' = [fn |-> "calculateRSI",
                  value |-> calculateRSI(fnArgs.prices, fnArgs.period)]
  /\ UNCHANGED <<targetPrices, spyPrices, daysToPredict, random, pc, frame,
                 calls, results, fnArgs>>
  /\ UNCHANGED appVars

NextRSI == ApplyRSI

SpecRSI == InitRSI /\ [][NextRSI]_vars

(***************************************************************************)
(* Data service: getStockData(symbol) (services/stockService.ts).  A text  *)
(* is a sequence of characters; a response is what axios.get settles with. *)
(***************************************************************************)
UpperCaseLetters == <<"A", "B", "C", "D", "E", "F", "G", "H", "I", "J", "K",
                      "P", "Q", "S", "Y">>

LowerCaseLetters == <<"a", "b", "c", "d", "e", "f", "g", "h", "i", "j", "k",
                      "p", "q", "s", "y">>

Digits == {"0", "1"}

\* String.prototype.toUpperCase, character by character
UpperCaseChar(ch) ==
  IF \E i \in 1..Len(LowerCaseLetters) : LowerCaseLetters[i] = ch
  THEN UpperCaseLetters[CHOOSE i \in 1..Len(LowerCaseLetters) : LowerCaseLetters[i] = ch]
  ELSE ch

ToUpperCase(text) == [i \in 1..Len(text) |-> UpperCaseChar(text[i])]

\* line 51: symbol.match(/^[A-Z0-9.]+$/)
ValidSymbolFormat(text) ==
  /\ Len(text) > 0
  /\ \A i \in 1..Len(text) :
       \/ \E j \in 1..Len(UpperCaseLetters) : UpperCaseLetters[j] = text[i]
       \/ text[i] \in Digits
       \/ text[i] = "."

\* line 9
CORRELATION_SYMBOLS == << <<"S", "P", "Y">>, <<"Q", "Q", "Q">> >>

\* line 103: the delay before each correlation request, in ms
CorrelationDelayMs == 1500

\* line 139: the horizon handed to predictFuturePrices
DaysToPredict == 5

\* lines 12-39: validateApiResponse; "ok" when it returns true, otherwise the
\* error it throws
validateApiResponse(data) ==
  IF data.errorMessage THEN "API Error"
  ELSE IF data.note THEN "API rate limit reached"
  ELSE IF data.information THEN "API Information"
  ELSE IF ~data.metaData THEN "Invalid symbol or API error"
  ELSE IF ~data.hasTimeSeries \/ Len(data.timeSeries) = 0
       THEN "No daily time series data available"
  ELSE "ok"

\* parseFloat of the text of a close
ParseFloat(raw) == IF raw.numeric THEN FromInt(raw.value) ELSE NaN

\* Array.prototype.filter on the close
RECURSIVE FilterValidClose(_)
FilterValidClose(entries) ==
  IF entries = << >> THEN << >>
  ELSE IF IsNaN(Head(entries).close) THEN FilterValidClose(Tail(entries))
  ELSE <<Head(entries)>> \o FilterValidClose(Tail(entries))

\* insertion of an entry into a sequence sorted by date, after the entries of
\* the same date (the sort is stable)
RECURSIVE InsertByDate(_, _)
InsertByDate(entry, sorted) ==
  IF sorted = << >> THEN <<entry>>
  ELSE IF entry.date < Head(sorted).date THEN <<entry>> \o sorted
  ELSE <<Head(sorted)>> \o InsertByDate(entry, Tail(sorted))

\* line 95: stockData.sort by date, oldest first
RECURSIVE SortByDate(_)
SortByDate(entries) ==
  IF entries = << >> THEN << >>
  ELSE InsertByDate(entries[Len(entries)],
                    SortByDate(SubSeq(entries, 1, Len(entries) - 1)))

\* arr.slice(1)
SliceFromOne(arr) == IF Len(arr) = 0 THEN << >> ELSE Tail(arr)

\* Array.prototype.reverse
Reverse(arr) == [i \in 1..Len(arr) |-> arr[Len(arr) + 1 - i]]

\* lines 78-88: the valid data points of the target's response, in its order
StockDataOf(data) ==
  FilterValidClose([i \in 1..Len(data.timeSeries) |->
                      [date  |-> data.timeSeries[i].date,
                       close |-> ParseFloat(data.timeSeries[i].close)]])

\* lines 116-120: the valid closes of a correlation response, reversed
CorrelationPricesOf(data) ==
  LET Closes(valid) == [i \in 1..Len(valid) |-> valid[i].close]
  IN Reverse(Closes(StockDataOf(data)))

\* line 137: correlationData[0] || targetPrices
ReferencePrices(correlationData, targetClose) ==
  IF Len(correlationData) > 0 THEN correlationData[1] ELSE targetClose

\* lines 132-153: the prediction and the value the call resolves with
Resolve(c, correlationData) ==
  LET targetClose == [i \in 1..Len(c.stockData) |-> c.stockData[i].close]
      lastDate    == c.stockData[Len(c.stockData)].date
      Dated(predictions) ==
        [i \in 1..Len(predictions) |->
           [date |-> lastDate + i, price |-> predictions[i]]]
      Called(reference) ==
        [c EXCEPT !.pc = "resolved",
                  !.correlationData = correlationData,
                  !.predictCall =
                     [called |-> TRUE, targetPrices |-> targetClose,
                      spyPrices |-> reference,
                      correlatedStocksPrices |-> SliceFromOne(correlationData),
                      daysToPredict |-> DaysToPredict],
                  !.predictions =
                     Dated(predictFuturePrices(targetClose, reference,
                                               DaysToPredict, << >>))]
  IN Called(ReferencePrices(correlationData, targetClose))

\* the locals of a call on entry
NewCall(text) ==
  [ pc |-> "start", symbol |-> text, inFlight |-> << >>, requests |-> << >>,
    responses |-> << >>, stockData |-> << >>, correlationData |-> << >>,
    index |-> 0, waited |-> 0,
    predictCall |-> [called |-> FALSE], predictions |-> << >>,
    message |-> "none" ]

\* what axios.get can settle with for a request; the closes are numbered from
\* base, newest first
NetworkError == [failed |-> TRUE]

Body(errorMessage, note, information, metaData, hasTimeSeries, timeSeries) ==
  [ failed |-> FALSE, errorMessage |-> errorMessage, note |-> note,
    information |-> information, metaData |-> metaData,
    hasTimeSeries |-> hasTimeSeries, timeSeries |-> timeSeries ]

Numeric(v) == [numeric |-> TRUE, value |-> v]

NotNumeric == [numeric |-> FALSE, value |-> 0]

Responses(base) ==
  { NetworkError,
    Body(TRUE, FALSE, FALSE, FALSE, FALSE, << >>),
    Body(FALSE, TRUE, FALSE, FALSE, FALSE, << >>),
    Body(FALSE, FALSE, TRUE, FALSE, FALSE, << >>),
    Body(FALSE, FALSE, FALSE, FALSE, FALSE, << >>),
    Body(FALSE, FALSE, FALSE, TRUE, FALSE, << >>),
    Body(FALSE, FALSE, FALSE, TRUE, TRUE, << >>),
    Body(FALSE, FALSE, FALSE, TRUE, TRUE,
         << [date |-> 2, close |-> NotNumeric] >>),
    Body(FALSE, FALSE, FALSE, TRUE, TRUE,
         << [date |-> 3, close |-> NotNumeric],
            [date |-> 2, close |-> Numeric(base + 2)],
            [date |-> 1, close |-> Numeric(base + 1)] >>) }

TargetBase == 100

CorrelationBase(index) == 500 - 100 * index

\* the texts getStockData is called with
ServiceSymbols ==
  { << >>, <<"A">>, <<"a">>, <<"B", ".", "1">>, <<"A", "-">>, <<"S", "P", "Y">> }

\* the period of the clock, in ms
TickMs == 500

\* mutant: the timer fires at once
DelayElapsedAtOnce(waited) == TRUE

\* lines 42, 103: the timer fires no earlier than after the delay
DelayElapsed(waited) == waited >= CorrelationDelayMs

(***************************************************************************)
(* SpecService: one getStockData call, one action per step between awaits  *)
(***************************************************************************)
InitService ==
  /\ targetPrices = << >>
  /\ spyPrices = << >>
  /\ daysToPredict = 0
  /\ random = NativeRandom
  /\ ProjectorIdle
  /\ fnArgs = None
  /\ fnResult = None
  /\ symbol = << >>
  /\ stocks = << >>
  /\ loading = FALSE
  /\ error = "none"
  /\ fetch = NoFetch
  /\ removals = 0
  /\ service \in {NewCall(text) : text \in ServiceSymbols}

\* mutant: the request is sent whatever the format
StartWithoutFormatCheck(c) ==
  [c EXCEPT !.pc = "awaitTarget",
            !.inFlight = Append(c.inFlight, c.symbol),
            !.requests = Append(c.requests, [symbol |-> c.symbol, waited |-> 0])]

\* lines 49-64: the format check, then the request for the target
Start(c) ==
  IF ~ValidSymbolFormat(c.symbol)
  THEN [c EXCEPT !.pc = "rejected", !.message = "Invalid symbol format"]
  ELSE [c EXCEPT !.pc = "awaitTarget",
                 !.inFlight = Append(c.inFlight, c.symbol),
                 !.requests = Append(c.requests, [symbol |-> c.symbol, waited |-> 0])]

\* lines 57-103: the target's response arrives
TargetSettles(c, response) ==
  LET Received(d) == [d EXCEPT !.inFlight = << >>,
                               !.responses = Append(d.responses, response)]
      Validated(verdict) ==
        IF verdict # "ok"
        THEN [Received(c) EXCEPT !.pc = "rejected", !.message = verdict]
        ELSE LET Kept(stockData) ==
                   IF Len(stockData) = 0
                   THEN [Received(c) EXCEPT !.pc = "rejected",
                                            !.message = "No valid price data found"]
                   ELSE [Received(c) EXCEPT !.pc = "delay",
                                            !.stockData = SortByDate(stockData),
                                            !.index = 1,
                                            !.waited = 0]
             IN Kept(StockDataOf(response))
  IN IF response.failed
     THEN [Received(c) EXCEPT !.pc = "rejected", !.message = "Network Error"]
     ELSE Validated(validateApiResponse(response))

\* line 103: time passes while the timer runs
Wait(c) == [c EXCEPT !.waited = c.waited + TickMs]

\* lines 103-112: the timer has fired, the correlation request is sent
RequestCorrelation(c) ==
  [c EXCEPT !.pc = "awaitCorr",
            !.inFlight = Append(c.inFlight, CORRELATION_SYMBOLS[c.index]),
            !.requests = Append(c.requests,
                                [symbol |-> CORRELATION_SYMBOLS[c.index],
                                 waited |-> c.waited])]

\* lines 105-153: a correlation response arrives; after the last one the
\* prediction is made and the call resolves
CorrelationSettles(c, response) ==
  LET Received == [c EXCEPT !.inFlight = << >>,
                            !.responses = Append(c.responses, response)]
      usable == /\ ~response.failed
                /\ validateApiResponse(response) = "ok"
                /\ Len(CorrelationPricesOf(response)) > 0
      correlationData == IF usable
                         THEN Append(c.correlationData, CorrelationPricesOf(response))
                         ELSE c.correlationData
  IN IF c.index < Len(CORRELATION_SYMBOLS)
     THEN [Received EXCEPT !.pc = "delay",
                           !.correlationData = correlationData,
                           !.index = c.index + 1,
                           !.waited = 0]
     ELSE Resolve(Received, correlationData)

\* everything but the call
outsideService ==
  <<targetPrices, spyPrices, daysToPredict, random, pc, frame, calls, results,
    fnArgs, fnResult, symbol, stocks, loading, error, fetch, removals>>

ServiceStart ==
  /\ service.pc = "start"
  /\ service' = Start(service)
  /\ UNCHANGED outsideService

ServiceTargetSettles ==
  /\ service.pc = "awaitTarget"
  /\ \E response \in Responses(TargetBase) :
       service' = TargetSettles(service, response)
  /\ UNCHANGED outsideService

ServiceWait ==
  /\ service.pc = "delay"
  /\ ~DelayElapsed(service.waited)
  /\ service' = Wait(service)
  /\ UNCHANGED outsideService

ServiceRequestCorrelation ==
  /\ service.pc = "delay"
  /\ DelayElapsed(service.waited)
  /\ service' = RequestCorrelation(service)
  /\ UNCHANGED outsideService

ServiceCorrelationSettles ==
  /\ service.pc = "awaitCorr"
  /\ \E response \in Responses(CorrelationBase(service.index)) :
       service' = CorrelationSettles(service, response)
  /\ UNCHANGED outsideService

NextService ==
  \/ ServiceStart
  \/ ServiceTargetSettles
  \/ ServiceWait
  \/ ServiceRequestCorrelation
  \/ ServiceCorrelationSettles

SpecService == InitService /\ [][NextService]_vars

(***************************************************************************)
(* App component (unnamed/part_000, lines 14-123): the form, the chips and *)
(* handleSubmit.  A getStockData call that handleSubmit awaits settles by  *)
(* resolving or by rejecting with an error message.                        *)
(***************************************************************************)
\* line 14
MAX_STOCKS == 10

\* the chips removed so far are counted to bound the exploration
MaxRemovals == 1

\* the message of a failed target request
TargetFailure == "API rate limit reached"

\* line 86: the submit button is disabled; a form whose submit button is
\* disabled is not submitted
SubmitDisabled(text, busy) == text = << >> \/ busy

\* mutant: one more stock is let in
AtCapacityStrict(list) == Len(list) > MAX_STOCKS

\* line 27
AtCapacity(list) == Len(list) >= MAX_STOCKS

\* mutant: the text is compared as typed
AlreadyAddedAsTyped(list, text) ==
  \E i \in 1..Len(list) : list[i].symbol = text

\* line 33
AlreadyAdded(list, text) ==
  \E i \in 1..Len(list) : list[i].symbol = ToUpperCase(text)

\* mutant: the entry carries the text as typed
NewEntryAsTyped(text) == [symbol |-> text]

\* lines 43-48: the entry appended for the text submitted
NewEntry(text) == [symbol |-> ToUpperCase(text)]

\* line 63: prev.filter(stock => stock.symbol !== symbolToRemove)
RECURSIVE FilterOut(_, _)
FilterOut(list, symbolToRemove) ==
  IF list = << >> THEN << >>
  ELSE IF Head(list).symbol = symbolToRemove
       THEN FilterOut(Tail(list), symbolToRemove)
       ELSE <<Head(list)>> \o FilterOut(Tail(list), symbolToRemove)

\* the sequence without its k-th element
Without(seq, k) == SubSeq(seq, 1, k - 1) \o SubSeq(seq, k + 1, Len(seq))

\* how getStockData(text) can reject (stockService.ts, lines 51-53, 154-160)
Rejections(text) ==
  IF ValidSymbolFormat(text) THEN {TargetFailure} ELSE {"Invalid symbol format"}

\* the texts the user types: nothing, a text with a dash, the first letter
\* not tracked in lower case, and the last tracked symbol in either case
Typed(i, lower) == <<(IF lower THEN LowerCaseLetters ELSE UpperCaseLetters)[i]>>

TrackedLetters(list) ==
  {i \in 1..(MAX_STOCKS + 1) : \E k \in 1..Len(list) : list[k].symbol = Typed(i, FALSE)}

InputTexts(list) ==
  LET tracked == TrackedLetters(list)
      fresh   == {i \in 1..(MAX_STOCKS + 1) :
                    i \notin tracked /\ \A j \in 1..(i - 1) : j \in tracked}
      last    == {i \in tracked : list[Len(list)].symbol = Typed(i, FALSE)}
  IN {<< >>, <<"a", "-">>}
       \cup {Typed(i, TRUE) : i \in fresh}
       \cup {Typed(i, l) : i \in last, l \in BOOLEAN}

(***************************************************************************)
(* SpecApp: the user types, submits the form and removes chips while the   *)
(* calls made by earlier submissions settle                                *)
(***************************************************************************)
outsideApp ==
  <<targetPrices, spyPrices, daysToPredict, random, pc, frame, calls, results,
    fnArgs, fnResult, service>>

InitApp ==
  /\ targetPrices = << >>
  /\ spyPrices = << >>
  /\ daysToPredict = 0
  /\ random = NativeRandom
  /\ ProjectorIdle
  /\ fnArgs = None
  /\ fnResult = None
  /\ ApplicationIdle

\* line 78: onChange of the text field
HandleChange ==
  /\ \E text \in InputTexts(stocks) : symbol' = text
  /\ UNCHANGED <<stocks, loading, error, fetch, removals>>
  /\ UNCHANGED outsideApp

\* lines 22-42: handleSubmit up to the await
HandleSubmit ==
  /\ ~SubmitDisabled(symbol, loading)
  /\ IF symbol = << >>
     THEN UNCHANGED <<loading, error, fetch>>
     ELSE IF AtCapacity(stocks)
     THEN /\ error' = "Maximum stocks allowed"
          /\ UNCHANGED <<loading, fetch>>
     ELSE IF AlreadyAdded(stocks, symbol)
     THEN /\ error' = "This stock is already added"
          /\ UNCHANGED <<loading, fetch>>
     ELSE /\ loading' = TRUE
          /\ error' = "none"
          /\ fetch' = Append(fetch, [symbol |-> symbol])
  /\ UNCHANGED <<symbol, stocks, removals>>
  /\ UNCHANGED outsideApp

\* lines 42-49, 57-59: the call resolves
FetchResolves ==
  /\ \E k \in 1..Len(fetch) :
       /\ ValidSymbolFormat(ToUpperCase(fetch[k].symbol))
       /\ stocks' = Append(stocks, NewEntry(fetch[k].symbol))
       /\ fetch' = Without(fetch, k)
  /\ symbol' = << >>
  /\ loading' = FALSE
  /\ UNCHANGED <<error, removals>>
  /\ UNCHANGED outsideApp

\* lines 50-59: the call rejects
FetchRejects ==
  /\ \E k \in 1..Len(fetch) :
       /\ \E message \in Rejections(ToUpperCase(fetch[k].symbol)) : error' = message
       /\ fetch' = Without(fetch, k)
  /\ loading' = FALSE
  /\ UNCHANGED <<symbol, stocks, removals>>
  /\ UNCHANGED outsideApp

\* lines 62-64, 108: onDelete of a chip
HandleRemoveStock ==
  /\ removals < MaxRemovals
  /\ \E k \in 1..Len(stocks) : stocks' = FilterOut(stocks, stocks[k].symbol)
  /\ removals' = removals + 1
  /\ UNCHANGED <<symbol, loading, error, fetch>>
  /\ UNCHANGED outsideApp

NextApp ==
  \/ HandleChange
  \/ HandleSubmit
  \/ FetchResolves
  \/ FetchRejects
  \/ HandleRemoveStock

SpecApp == InitApp /\ [][NextApp]_vars

\* a call that is awaited settles
SpecAppLive == SpecApp /\ WF_vars(FetchResolves \/ FetchRejects)

(***************************************************************************)
(* Properties of the projector, checked under Spec                         *)
(***************************************************************************)
LongEnough == Len(targetPrices) >= HistoryWindow

LastKnownPrice == At(targetPrices, Len(targetPrices) - 1)

Finite(a) == a.c = "fin"

\* C1: for a target series of fewer than 50 entries, whatever the reference
\* series and the horizon, every invocation returns at once with the empty
\* sequence: the loop is never entered and every invocation made has returned.
C1_ShortHistoryReturnsEmpty ==
  Len(targetPrices) < HistoryWindow =>
    /\ pc = "idle"
    /\ frame = NoFrame
    /\ Len(results) = Min(calls, 2)
    /\ \A k \in 1..Len(results) : results[k] = << >>

C1_Witness ==
  /\ Len(targetPrices) = HistoryWindow - 1
  /\ Len(spyPrices) = 0
  /\ daysToPredict = MaxDays
  /\ calls >= 1
  /\ results[1] = << >>

\* C2: for a target series of at least 50 entries, a reference series of at
\* least 2 entries and a horizon N >= 0, every invocation returns a sequence of
\* length exactly N, and the k-th element is the price emitted by iteration k.
C2_Lengths ==
  LongEnough /\ Len(spyPrices) >= 2 =>
    /\ \A k \in 1..Len(results) : Len(results[k]) = daysToPredict
    /\ pc = "loop" => /\ Len(frame.predictions) = frame.i - 1
                      /\ frame.i - 1 <= daysToPredict

C2_StepOrder ==
  LongEnough /\ Len(spyPrices) >= 2 =>
    /\ pc = "loop" /\ pc' = "loop" =>
         /\ frame'.i = frame.i + 1
         /\ frame'.predictions =
              Append(frame.predictions, ToFixed2(frame'.currentPrice))
    /\ pc = "loop" /\ pc' = "idle" =>
         results'[Len(results')] = frame.predictions

C2_LengthIsHorizon == [](C2_Lengths) /\ [][C2_StepOrder]_vars

C2_Witness ==
  /\ Len(targetPrices) = HistoryWindow
  /\ Len(spyPrices) >= 2
  /\ daysToPredict = MaxDays
  /\ calls >= 1
  /\ Len(results[1]) = MaxDays
  /\ Finite(results[1][MaxDays])

\* C3 as claimed: every emitted price differs from the previous day's price
\* (the last known price for day 1, the previously emitted prediction after
\* that) by a fractional change of absolute value at most
\* min(0.1, 2 * volatility).  An undefined (NaN) change is not counted
\* against the claim, and the bound is taken with a tolerance of a few units
\* in the last place, so that the rounding of the arithmetic is not counted
\* against it either.
C3_PreviousPrice(k) == IF k = 1 THEN LastKnownPrice ELSE frame.predictions[k - 1]

C3_Tolerance == FAdd(One, FromRatio(1, 2^(Precision - 3)))

C3_EmittedChangeWithinBound ==
  pc = "loop" =>
    \A k \in 1..Len(frame.predictions) :
      LET prev == C3_PreviousPrice(k)
          c    == FDiv(FSub(frame.predictions[k], prev), prev)
          mc   == FMin(FromRatio(1, 10), FMul(frame.volatility, FromInt(2)))
      IN IsNaN(c) \/ FLe(FAbs(c), FMul(mc, C3_Tolerance))

\* C3 as amended: the fractional change an iteration applies to the unrounded
\* running price is NaN or of absolute value at most min(0.1, 2 * volatility),
\* for every value of the random component; the emitted price is the new
\* running price rounded to two decimals.
C3_AppliedChangeWithinBound ==
  [][pc = "loop" /\ pc' = "loop" =>
       LET bc == frame'.boundedChange
           mc == FMin(FromRatio(1, 10), FMul(frame.volatility, FromInt(2)))
       IN /\ IsNaN(bc) \/ (FLe(FNeg(mc), bc) /\ FLe(bc, mc))
          /\ frame'.currentPrice = FMul(frame.currentPrice, FAdd(One, bc))
          /\ frame'.predictions[Len(frame'.predictions)]
               = ToFixed2(frame'.currentPrice)]_vars

\* the clamp is active from below
C3_Witness ==
  /\ pc = "loop"
  /\ frame.i > 1
  /\ FLt(frame.change, FNeg(frame.maxChange))
  /\ frame.boundedChange = FNeg(frame.maxChange)

\* C4 as claimed: the change before clamping is (blend + stochastic term)
\* multiplied by exp(-0.1 * i) and by nothing else.
C4_ChangeIsDampenedReturn ==
  pc = "loop" /\ frame.i > 1 =>
    /\ frame.totalReturn = FAdd(frame.expectedReturn, frame.randomComponent)
    /\ frame.change =
         FMul(frame.totalReturn, FExp(FMul(FromRatio(-1, 10), FromInt(frame.i - 1))))

\* C4 as amended: the change before clamping is (blend + stochastic term)
\* multiplied by the volatility and then by exp(-0.1 * i); the clamp to
\* plus/minus min(0.1, 2 * volatility) is applied to exactly that value.
C4_ChangeIsScaledDampenedReturn ==
  pc = "loop" /\ frame.i > 1 =>
    LET mc == FMin(FromRatio(1, 10), FMul(frame.volatility, FromInt(2)))
    IN /\ frame.totalReturn = FAdd(frame.expectedReturn, frame.randomComponent)
       /\ frame.change =
            FMul(FMul(frame.totalReturn, frame.volatility),
                 FExp(FMul(FromRatio(-1, 10), FromInt(frame.i - 1))))
       /\ frame.boundedChange = FMax(FNeg(mc), FMin(mc, frame.change))

C4_Witness ==
  /\ pc = "loop"
  /\ frame.i = MaxDays + 1
  /\ Finite(frame.change)
  /\ ~IsZero(frame.change)
  /\ frame.change # FMul(frame.totalReturn, frame.dampening)
  /\ frame.boundedChange = frame.change

\* C5: during an invocation the indicator snapshot (volatility, RSI, momentum,
\* the moving averages, correlation, last reference return) is the one computed
\* on entry and does not change from one iteration to the next.
IndicatorSnapshot(f) ==
  [ volatility |-> f.volatility, rsi |-> f.rsi, momentum |-> f.momentum,
    ma20 |-> f.ma20, ma50 |-> f.ma50, correlation |-> f.correlation,
    recentSpyReturn |-> f.recentSpyReturn ]

C5_SnapshotFrozen ==
  [][pc = "loop" /\ pc' = "loop" =>
       IndicatorSnapshot(frame') = IndicatorSnapshot(frame)]_vars

\* two iterations have run and the running price has moved
C5_Witness ==
  /\ pc = "loop"
  /\ frame.i > 2
  /\ Finite(frame.currentPrice)
  /\ frame.currentPrice # LastKnownPrice
  /\ frame.predictions[1] # frame.predictions[2]

\* C7: with the random source stubbed to a constant, two successive invocations
\* with the same arguments return the same sequence.
C7_StubbedCallsAgree ==
  random.fixed /\ Len(results) = 2 => results[1] = results[2]

C7_Witness ==
  /\ random.fixed
  /\ calls = 2
  /\ Len(results) = 2
  /\ Len(results[2]) = MaxDays
  /\ Finite(results[2][MaxDays])
  /\ results[2][MaxDays] # LastKnownPrice

(***************************************************************************)
(* Properties of the projector as a function, checked under SpecWindow     *)
(***************************************************************************)
\* C6: for a target series of at least 50 entries, the result equals the result
\* for the last 50 entries of the series (same reference series, horizon and
\* random draws), and equals the result of the variant that hands the whole
\* series to the indicators.
C6_OnlyLastFiftyMatter ==
  fnResult.fn = "predictFuturePrices" /\ LongEnough =>
    /\ fnResult.value =
         predictFuturePrices(SubSeq(targetPrices,
                                    Len(targetPrices) - HistoryWindow + 1,
                                    Len(targetPrices)),
                             spyPrices, daysToPredict, fnArgs.draws)
    /\ fnResult.value =
         predictFuturePricesUnsliced(targetPrices, spyPrices, daysToPredict,
                                     fnArgs.draws)

\* older entries of another magnitude precede the window
C6_Witness ==
  /\ fnResult.fn = "predictFuturePrices"
  /\ Len(targetPrices) > HistoryWindow
  /\ targetPrices[1] # targetPrices[Len(targetPrices) - HistoryWindow + 1]
  /\ daysToPredict = MaxDays
  /\ Len(fnResult.value) = MaxDays
  /\ Finite(fnResult.value[MaxDays])

(***************************************************************************)
(* Properties of calculateCorrelation, checked under SpecCorr              *)
(***************************************************************************)
\* the Pearson coefficient of two sequences of the same length n >= 2
Pearson(x, y) ==
  LET n     == Len(x)
      xMean == FDiv(Sum(x), FromInt(n))
      yMean == FDiv(Sum(y), FromInt(n))
      num   == Sum([i \in 1..n |-> FMul(FSub(x[i], xMean), FSub(y[i], yMean))])
      xVar  == Sum([i \in 1..n |-> FMul(FSub(x[i], xMean), FSub(x[i], xMean))])
      yVar  == Sum([i \in 1..n |-> FMul(FSub(y[i], yMean), FSub(y[i], yMean))])
  IN FDiv(num, FSqrt(FMul(xVar, yVar)))

\* C8: calculateCorrelation(x, y) is the Pearson coefficient of the first
\* n = min(len(x), len(y)) elements of each input, the elements of the longer
\* input beyond them having no effect; it is 0 when n < 2.
C8_PearsonOfCommonPrefix ==
  fnResult.fn = "calculateCorrelation" =>
    LET n == Min(Len(fnArgs.x), Len(fnArgs.y))
    IN fnResult.value =
         IF n < 2 THEN Zero
         ELSE Pearson(SubSeq(fnArgs.x, 1, n), SubSeq(fnArgs.y, 1, n))

\* C9: calculateCorrelation(x, x) = 1 for every non-constant x of length >= 2.
C9_SelfCorrelationIsOne ==
  /\ fnResult.fn = "calculateCorrelation"
  /\ fnArgs.x = fnArgs.y
  /\ Len(fnArgs.x) >= 2
  /\ \E i, j \in 1..Len(fnArgs.x) : fnArgs.x[i] # fnArgs.x[j]
  => fnResult.value = One

C9_Witness ==
  /\ fnResult.fn = "calculateCorrelation"
  /\ fnArgs.x = fnArgs.y
  /\ Len(fnArgs.x) = MaxLen
  /\ fnArgs.x[1] = FromRatio(-1, 10)
  /\ fnArgs.x[2] = FromInt(3)
  /\ fnResult.value = One

(***************************************************************************)
(* Properties of calculateMA, checked under SpecMA                         *)
(***************************************************************************)
RECURSIVE UnitsSum(_, _, _)
UnitsSum(u, lo, hi) == IF lo > hi THEN 0 ELSE u[lo] + UnitsSum(u, lo + 1, hi)

\* C10: calculateMA(prices, period) has the length of prices; every index below
\* period - 1 is NaN, and every index i from period - 1 on is the arithmetic
\* mean of prices[i - period + 1 .. i], which at index period - 1 is the mean
\* of the first period elements.  (Indices here are 1-based: k = i + 1.)
C10_MovingAverage ==
  fnResult.fn = "calculateMA" =>
    /\ Len(fnResult.value) = Len(fnArgs.prices)
    /\ \A k \in 1..Len(fnArgs.prices) :
         IF k < fnArgs.period
         THEN IsNaN(fnResult.value[k])
         ELSE fnResult.value[k] =
                FromRatio(UnitsSum(fnArgs.units, k - fnArgs.period + 1, k),
                          fnArgs.period)

C10_Witness ==
  /\ fnResult.fn = "calculateMA"
  /\ fnArgs.period = 2
  /\ fnArgs.units = <<1, 2, 5>>
  /\ IsNaN(fnResult.value[1])
  /\ fnResult.value[2] = FromRatio(3, 2)
  /\ fnResult.value[3] = FromRatio(7, 2)

(***************************************************************************)
(* Properties of calculateRSI, checked under SpecRSI                       *)
(***************************************************************************)
\* the day-over-day changes, in whole units, of the trailing period + 1 prices
TrailingChanges(u, period) ==
  LET first == IF Len(u) > period + 1 THEN Len(u) - period ELSE 1
  IN [j \in 1..(Len(u) - first) |-> u[first + j] - u[first + j - 1]]

RECURSIVE GainSum(_, _)
GainSum(ch, j) ==
  IF j = 0 THEN 0 ELSE GainSum(ch, j - 1) + (IF ch[j] > 0 THEN ch[j] ELSE 0)

RECURSIVE LossSum(_, _)
LossSum(ch, j) ==
  IF j = 0 THEN 0 ELSE LossSum(ch, j - 1) + (IF ch[j] < 0 THEN -ch[j] ELSE 0)

\* C11: calculateRSI returns exactly 70 whenever the day-over-day changes of the
\* trailing period + 1 prices contain no loss (the flat case and the case of
\* fewer than two prices included); otherwise it returns
\* 100 - 100 / (1 + avgGain / avgLoss), avgGain and avgLoss being the sums of
\* the gains and of the losses divided by period, and that value lies in 0..100.
C11_RSI ==
  fnResult.fn = "calculateRSI" =>
    LET ch      == TrailingChanges(fnArgs.units, fnArgs.period)
        avgGain == FromRatio(GainSum(ch, Len(ch)), fnArgs.period)
        avgLoss == FromRatio(LossSum(ch, Len(ch)), fnArgs.period)
    IN IF LossSum(ch, Len(ch)) = 0
       THEN fnResult.value = FromInt(70)
       ELSE /\ fnResult.value =
                 FSub(FromInt(100),
                      FDiv(FromInt(100), FAdd(One, FDiv(avgGain, avgLoss))))
            /\ FLe(Zero, fnResult.value)
            /\ FLe(fnResult.value, FromInt(100))

\* of the prices 1, 2, 5, 2 the trailing three count for period 2: a gain of 3
\* and a loss of 3 yield 100 - 100 / 2
C11_Witness ==
  /\ fnResult.fn = "calculateRSI"
  /\ fnArgs.units = <<1, 2, 5, 2>>
  /\ fnArgs.period = 2
  /\ fnResult.value = FromInt(50)

(***************************************************************************)
(* Properties of getStockData, checked under SpecService                   *)
(***************************************************************************)
\* a response from which at least one price can be taken
Usable(response) ==
  /\ ~response.failed
  /\ ~response.errorMessage /\ ~response.note /\ ~response.information
  /\ response.metaData /\ response.hasTimeSeries
  /\ \E i \in 1..Len(response.timeSeries) : response.timeSeries[i].close.numeric

\* the numeric closes of a response, oldest first (the responses list the
\* newest date first)
RECURSIVE ClosesOldestFirst(_)
ClosesOldestFirst(series) ==
  IF series = << >> THEN << >>
  ELSE ClosesOldestFirst(Tail(series))
         \o (IF Head(series).close.numeric
             THEN <<FromInt(Head(series).close.value)>> ELSE << >>)

\* position of the responses in the order the requests are made
TargetResponse == service.responses[1]

SpyResponse == service.responses[2]

QqqResponse == service.responses[3]

\* C13: whenever the SPY fetch fails or yields no valid price, the reference
\* series handed to predictFuturePrices is the target's own closing prices,
\* whatever the outcome of the QQQ fetch; and when the SPY fetch yields prices
\* the reference is SPY's series.
C13_ReferenceIsSpyOrTarget ==
  (service.pc = "resolved" /\ service.predictCall.called) =>
    /\ service.predictCall.targetPrices = ClosesOldestFirst(TargetResponse.timeSeries)
    /\ IF Usable(SpyResponse)
       THEN service.predictCall.spyPrices = ClosesOldestFirst(SpyResponse.timeSeries)
       ELSE service.predictCall.spyPrices = service.predictCall.targetPrices

\* C14: within one call at most one request is in flight; a correlation
\* request is sent only when every earlier request has been answered, the
\* target's response has been validated, and the 1500 ms of its own delay have
\* elapsed; predictFuturePrices is invoked only when the target and every
\* correlation symbol have been answered and nothing is in flight.
C14_RequestsAreSequential ==
  [][ /\ Len(service'.inFlight) <= 1
      /\ (Len(service'.requests) > Len(service.requests) /\ Len(service.requests) >= 1) =>
            /\ service.inFlight = << >>
            /\ Len(service.responses) = Len(service.requests)
            /\ Usable(TargetResponse)
            /\ service.pc = "delay"
            /\ service.waited >= CorrelationDelayMs
            /\ service'.requests[Len(service'.requests)].symbol
                 = CORRELATION_SYMBOLS[Len(service.requests)]
      /\ (service'.predictCall.called /\ ~service.predictCall.called) =>
            /\ Len(service'.responses) = 1 + Len(CORRELATION_SYMBOLS)
            /\ Len(service'.requests) = 1 + Len(CORRELATION_SYMBOLS)
            /\ service'.inFlight = << >> ]_vars

C14_Witness ==
  /\ service.pc = "resolved"
  /\ service.predictCall.called
  /\ Len(service.requests) = 3
  /\ service.requests[2].waited >= CorrelationDelayMs
  /\ service.requests[3].waited >= CorrelationDelayMs
  /\ Usable(SpyResponse) /\ Usable(QqqResponse)

\* the text matches /^[A-Z0-9.]+$/: it is not empty and has no lower-case
\* letter and no dash
WellFormed(text) ==
  /\ text # << >>
  /\ \A i \in 1..Len(text) : ToUpperCase(text)[i] = text[i] /\ text[i] # "-"

\* C15: a call rejects only for an invalid symbol format, and then before any
\* request is sent, or for a failed or invalid response for the target; once
\* the target's response is valid the call never rejects, whatever the
\* correlation fetches do: every correlation symbol is still requested, and
\* the call resolves with the target's data.
C15_OnlyTargetFailuresReject ==
  /\ ~WellFormed(service.symbol) =>
        service.requests = << >> /\ service.pc \in {"start", "rejected"}
  /\ service.pc = "rejected" =>
        \/ ~WellFormed(service.symbol)
        \/ Len(service.responses) = 1 /\ ~Usable(TargetResponse)
  /\ (Len(service.responses) >= 1 /\ Usable(TargetResponse)) =>
        /\ service.pc # "rejected"
        /\ service.pc # "resolved" => ENABLED NextService
  /\ service.pc = "resolved" =>
        /\ [i \in 1..Len(service.requests) |-> service.requests[i].symbol]
             = <<service.symbol>> \o CORRELATION_SYMBOLS
        /\ [i \in 1..Len(service.stockData) |-> service.stockData[i].close]
             = ClosesOldestFirst(TargetResponse.timeSeries)

C15_Witness ==
  /\ service.pc = "resolved"
  /\ SpyResponse.failed
  /\ ~QqqResponse.failed /\ QqqResponse.note
  /\ service.correlationData = << >>

(***************************************************************************)
(* Properties of the App component, checked under SpecApp and SpecAppLive  *)
(***************************************************************************)
\* C12: the tracked list never holds more than 10 entries, whatever the
\* submissions (also those attempted while a call is awaited), their outcomes
\* and the removals; a submission made while 10 stocks are tracked leaves the
\* list unchanged, starts no call and sets the maximum-reached error.
C12_AtMostTenStocks ==
  /\ [](Len(stocks) <= MAX_STOCKS /\ Len(stocks) + Len(fetch) <= MAX_STOCKS)
  /\ [][(HandleSubmit /\ Len(stocks) = MAX_STOCKS) =>
          /\ stocks' = stocks
          /\ fetch' = fetch
          /\ error' = "Maximum stocks allowed"]_vars

C12_Witness ==
  /\ Len(stocks) = MAX_STOCKS
  /\ symbol # << >>
  /\ error = "Maximum stocks allowed"

\* C16: a submission that starts a call eventually ends with loading reset to
\* false (loading is true exactly while a call is awaited); when the call
\* fails the list is unchanged and the error message is set; when it succeeds
\* exactly one entry, the submitted text in upper case, is appended and the
\* input is cleared.
C16_SubmissionEnds ==
  /\ [](loading <=> fetch # << >>)
  /\ (loading ~> ~loading)
  /\ [][/\ FetchRejects =>
            /\ ~loading'
            /\ stocks' = stocks
            /\ error' # "none"
        /\ FetchResolves =>
            /\ ~loading'
            /\ stocks' = Append(stocks, [symbol |-> ToUpperCase(fetch[1].symbol)])
            /\ symbol' = << >>]_vars

\* "a" was submitted and added as A; then "b" was submitted and its call failed
C16_Witness ==
  /\ stocks = << [symbol |-> <<"A">>] >>
  /\ symbol = <<"b">>
  /\ error = TargetFailure
  /\ ~loading
  /\ fetch = << >>

\* the typed text, upper-cased, is the symbol of a tracked stock
IsTracked(text) == \E i \in 1..Len(stocks) : stocks[i].symbol = ToUpperCase(text)

NoDuplicates ==
  \A i, j \in 1..Len(stocks) : stocks[i].symbol = stocks[j].symbol => i = j

\* C17 as stated: no two entries have the same symbol, and every submission of
\* a tracked symbol leaves the list unchanged, starts no call and sets the
\* already-added error.
C17_DuplicateSubmissionRefused ==
  /\ [](NoDuplicates)
  /\ [][(HandleSubmit /\ IsTracked(symbol)) =>
          /\ stocks' = stocks
          /\ fetch' = fetch
          /\ error' = "This stock is already added"]_vars

\* C17, amended: no two entries have the same symbol; a submission of a
\* tracked symbol leaves the list unchanged and starts no call; it sets the
\* already-added error while fewer than 10 stocks are tracked, and the
\* maximum-reached error when 10 are.
C17_DuplicateSubmissionRefusedBelowMaximum ==
  /\ [](NoDuplicates)
  /\ [][(HandleSubmit /\ IsTracked(symbol)) =>
          /\ stocks' = stocks
          /\ fetch' = fetch
          /\ error' = IF Len(stocks) < MAX_STOCKS
                      THEN "This stock is already added"
                      ELSE "Maximum stocks allowed"]_vars

C17_Witness ==
  /\ stocks = << [symbol |-> <<"A">>] >>
  /\ symbol = <<"a">>
  /\ error = "This stock is already added"
  /\ fetch = << >>

====
